---- MODULE Spec2Model ----
(***************************************************************************)
(* Money-transfer core of simple-bank-v2: the HTTP handler CreateTransfer, *)
(* TransferService.CreateTransfer / execTransfer / addMoney, the GORM      *)
(* repositories and GormTxManager.Transaction, run by concurrent requests  *)
(* against one database.                                                   *)
(*                                                                         *)
(* The database is modelled as the committed tables (db) plus, for every   *)
(* open transaction, the buffer of writes made on that transaction's       *)
(* handle (txWrites).  A statement issued on the root handle is committed  *)
(* by itself when it ends (autocommit); a statement issued on a            *)
(* transaction's handle is buffered until Commit and dropped by Rollback.  *)
(***************************************************************************)
EXTENDS Integers, Sequences, FiniteSets, TLC

\* ----------------------------------------------------------------- bounds
NumProcs == 2          \* concurrent HTTP requests
MaxAmount == 2         \* largest amount a request asks for
MaxNegAmount == 1      \* a request may ask for an amount down to -MaxNegAmount

Procs == 1..NumProcs

\* ------------------------------------------------------------ error codes
CodeSuccess == 0
CodeInvalidParams == 40001
CodeInvalidRequest == 40002
CodeUnauthorized == 40101
CodeAccountNotFound == 40403
CodeAlreadyExists == 40901
CodeInsufficientBalance == 42201
CodeCurrencyMismatch == 42202
CodeSameAccount == 42203
CodeDatabaseError == 50002

\* Go's integer division: the quotient is truncated toward zero.
GoDiv(a, b) == IF a >= 0 THEN a \div b ELSE 0 - ((0 - a) \div b)

\* codeToHTTPStatus without 422 among the statuses of its switch.
codeToHTTPStatus_No422(code) ==
    IF code = CodeSuccess THEN 200
    ELSE LET httpCode == GoDiv(code, 100)
         IN  IF httpCode \in {400, 401, 403, 404, 409} THEN httpCode
             ELSE IF httpCode \in {500, 502, 503} THEN httpCode
             ELSE 500

\* The HTTP status of an error code: its first three digits when they are a
\* status the server uses, 500 otherwise.
codeToHTTPStatus(code) ==
    IF code = CodeSuccess THEN 200
    ELSE LET httpCode == GoDiv(code, 100)
         IN  IF httpCode \in {400, 401, 403, 404, 409, 422} THEN httpCode
             ELSE IF httpCode \in {500, 502, 503} THEN httpCode
             ELSE 500

\* ------------------------------------------------------------ seeded data
\* accounts table before the first request: id = index.  One account per
\* (owner, currency) pair; balances are non-negative.
SeedAccounts ==
    << [owner |-> "alice", currency |-> "USD", balance |-> 2],
       [owner |-> "bob",   currency |-> "USD", balance |-> 1],
       [owner |-> "bob",   currency |-> "EUR", balance |-> 1] >>

Users == {"alice", "bob"}

\* The currencies a CreateAccountRequest may name.
Currencies == {"USD", "EUR", "CNY"}

\* gorm.Config.TranslateError: whether gorm turns the driver's unique
\* violation into gorm.ErrDuplicatedKey.  The server does not set it.
TranslateError == FALSE

\* ids a request may name: the existing accounts and one id that has no row
RequestIDs == 1..(Len(SeedAccounts) + 1)

VARIABLES
    db,         \* committed tables: accounts, transfers, entries
    txOpen,     \* txOpen[p]: request p holds an open database transaction
    txWrites,   \* txWrites[p]: writes buffered on p's transaction handle
    pc,         \* pc[p]: position of request p
    req,        \* req[p]: authenticated user and CreateTransferRequest of p
    fromAccount,\* fromAccount[p]: the from-account row as read in step 1
    err,        \* err[p]: error code p returns (CodeSuccess = nil)
    committed,  \* history: committed[p] = the commits that made writes of p
                \* durable, in order, each the sequence of writes it committed
    acctReq,    \* acctReq[p]: authenticated user and CreateAccountRequest of p
    users,      \* users table: rows of username and hashed password
    sessions,   \* sessions table: rows of id, username, refresh token, is_blocked
    tokens,     \* tokens the maker has signed: tokens[i] = username of token i
    resp        \* the response last written by a read or user handler

vars == <<db, txOpen, txWrites, pc, req, fromAccount, err, committed, acctReq,
          users, sessions, tokens, resp>>

\* The state of the user handlers, which no transfer or account step touches.
authVars == <<users, sessions, tokens, resp>>

NoReq == [owner |-> "", from |-> 0, to |-> 0, amount |-> 0]
NoAccount == [owner |-> "", currency |-> "", balance |-> 0]
NoAcctReq == [owner |-> "", currency |-> ""]

\* ------------------------------------------------------------- the store
\* The handle the repositories issue their statements on: r.db, the root
\* handle injected at construction - not the tx handed to the Transaction
\* callback, which the callback ignores.
RepoHandle == "db"

\* A write: a Transfer insert, an Entry insert or a balance increment.
WTransfer(p) ==
    [kind |-> "transfer", by |-> p, from |-> req[p].from, to |-> req[p].to,
     account |-> 0, amount |-> req[p].amount]
WEntry(p, id, amt) ==
    [kind |-> "entry", by |-> p, from |-> 0, to |-> 0, account |-> id, amount |-> amt]
WBalance(p, id, delta) ==
    [kind |-> "balance", by |-> p, from |-> 0, to |-> 0, account |-> id, amount |-> delta]

\* ApplyWrite with transfers de-duplicated: a Transfer insert is dropped
\* when a row with the same from, to and amount exists.
ApplyWrite_Dedup(d, w) ==
    CASE w.kind = "transfer" ->
           IF \E r \in d.transfers :
                 r.from = w.from /\ r.to = w.to /\ r.amount = w.amount
           THEN d
           ELSE [d EXCEPT !.transfers = @ \cup {[by |-> w.by, from |-> w.from,
                                                   to |-> w.to, amount |-> w.amount]}]
      [] w.kind = "entry" ->
           [d EXCEPT !.entries = @ \cup {[by |-> w.by, account |-> w.account,
                                            amount |-> w.amount]}]
      [] w.kind = "balance" ->
           IF w.account \in DOMAIN d.accounts
           THEN [d EXCEPT !.accounts[w.account].balance = @ + w.amount]
           ELSE d

\* ApplyWrite with the balance update issued without its WHERE id = ?:
\* every account row is incremented.
ApplyWrite_NoWhere(d, w) ==
    CASE w.kind = "transfer" ->
           [d EXCEPT !.transfers = @ \cup {[by |-> w.by, from |-> w.from,
                                              to |-> w.to, amount |-> w.amount]}]
      [] w.kind = "entry" ->
           [d EXCEPT !.entries = @ \cup {[by |-> w.by, account |-> w.account,
                                            amount |-> w.amount]}]
      [] w.kind = "balance" ->
           [d EXCEPT !.accounts = [i \in DOMAIN @ |->
                                      [@[i] EXCEPT !.balance = @ + w.amount]]]

\* ApplyWrite as a read-then-write: the balance of the from-account is
\* computed from the row the service read in its precondition check.
ApplyWrite_FromStaleRead(d, w) ==
    CASE w.kind = "transfer" ->
           [d EXCEPT !.transfers = @ \cup {[by |-> w.by, from |-> w.from,
                                              to |-> w.to, amount |-> w.amount]}]
      [] w.kind = "entry" ->
           [d EXCEPT !.entries = @ \cup {[by |-> w.by, account |-> w.account,
                                            amount |-> w.amount]}]
      [] w.kind = "balance" ->
           IF w.account \in DOMAIN d.accounts
           THEN IF w.account = req[w.by].from
                THEN [d EXCEPT !.accounts[w.account].balance =
                                   fromAccount[w.by].balance + w.amount]
                ELSE [d EXCEPT !.accounts[w.account].balance = @ + w.amount]
           ELSE d

\* The tables after write w is committed.  A row of transfers or entries is
\* identified by the request that inserted it (by) in place of its
\* auto-increment id.  A balance write is the single statement
\* UPDATE accounts SET balance = balance + ? WHERE id = ?.
ApplyWrite(d, w) ==
    CASE w.kind = "transfer" ->
           [d EXCEPT !.transfers = @ \cup {[by |-> w.by, from |-> w.from,
                                              to |-> w.to, amount |-> w.amount]}]
      [] w.kind = "entry" ->
           [d EXCEPT !.entries = @ \cup {[by |-> w.by, account |-> w.account,
                                            amount |-> w.amount]}]
      [] w.kind = "balance" ->
           IF w.account \in DOMAIN d.accounts
           THEN [d EXCEPT !.accounts[w.account].balance = @ + w.amount]
           ELSE d

RECURSIVE ApplyAll(_, _)
ApplyAll(d, ws) ==
    IF ws = << >> THEN d ELSE ApplyAll(ApplyWrite(d, Head(ws)), Tail(ws))

RECURSIVE BalanceWrites(_)
BalanceWrites(ws) ==
    IF ws = << >> THEN << >>
    ELSE IF Head(ws).kind = "balance"
         THEN << Head(ws) >> \o BalanceWrites(Tail(ws))
         ELSE BalanceWrites(Tail(ws))

\* bcrypt: the hash of a password is a value of another kind than the
\* password, and CompareHashAndPassword accepts exactly the password the hash
\* was generated from.
HashPassword(password) == <<"bcrypt", password>>
CheckPassword(password, hashedPassword) == hashedPassword[2] = password

\* The registered users: the owners of the seed accounts (accounts.owner
\* references users.username).
SeedUsers ==
    { [username |-> "alice", hashedPassword |-> HashPassword("pw1")],
      [username |-> "bob", hashedPassword |-> HashPassword("pw2")] }

\* No response written yet.
NoResp == [op |-> "none"]

Init ==
    /\ db = [accounts |-> SeedAccounts, transfers |-> {}, entries |-> {}]
    /\ txOpen = [p \in Procs |-> FALSE]
    /\ txWrites = [p \in Procs |-> << >>]
    /\ pc = [p \in Procs |-> "idle"]
    /\ req = [p \in Procs |-> NoReq]
    /\ fromAccount = [p \in Procs |-> NoAccount]
    /\ err = [p \in Procs |-> CodeSuccess]
    /\ committed = [p \in Procs |-> << >>]
    /\ acctReq = [p \in Procs |-> NoAcctReq]
    /\ users = SeedUsers
    /\ sessions = {}
    /\ tokens = << >>
    /\ resp = NoResp

\* A repository write by p: committed at once on the root handle, buffered
\* on a transaction handle.
Exec(p, w) ==
    IF RepoHandle = "tx"
    THEN /\ txWrites' = [txWrites EXCEPT ![p] = Append(@, w)]
         /\ UNCHANGED <<db, committed>>
    ELSE /\ db' = ApplyWrite(db, w)
         /\ committed' = [committed EXCEPT ![p] = Append(@, <<w>>)]
         /\ UNCHANGED txWrites

Fail(p, code, next) ==
    /\ err' = [err EXCEPT ![p] = code]
    /\ pc' = [pc EXCEPT ![p] = next]

\* The handler returns to the client and the service's locals are gone.  An
\* error response carries the code; the 201 response carries the Transfer's
\* from, to and amount (toTransferResponse), kept in req.
Return(p, code) ==
    /\ err' = [err EXCEPT ![p] = code]
    /\ pc' = [pc EXCEPT ![p] = "done"]
    /\ req' = [req EXCEPT ![p] = IF code = CodeSuccess THEN @ ELSE NoReq]
    /\ fromAccount' = [fromAccount EXCEPT ![p] = NoAccount]

\* ------------------------------------------------- handler: CreateTransfer
\* ValidateRequest without the handler's comparison of the two account ids.
ValidateRequest_NoSameAccountCheck(f, t, a) ==
    IF a <= 0 THEN CodeInvalidParams
    ELSE CodeSuccess

\* The handler binds the JSON body (amount gt=0) and rejects from = to.
ValidateRequest(f, t, a) ==
    IF a <= 0 THEN CodeInvalidParams
    ELSE IF f = t THEN CodeSameAccount
    ELSE CodeSuccess

\* ------------------------------------------- service: CreateTransfer 1..4
\* CheckFrom with GetByID reporting a missing row as a database error.
CheckFrom_NotFoundAsDatabaseError(accounts, o, f) ==
    IF f \notin DOMAIN accounts THEN CodeDatabaseError
    ELSE IF accounts[f].owner # o THEN CodeUnauthorized
    ELSE CodeSuccess

\* CheckFrom without the comparison of the owner with the caller.
CheckFrom_AnyCaller(accounts, o, f) ==
    IF f \notin DOMAIN accounts THEN CodeAccountNotFound
    ELSE CodeSuccess

\* Step 1: the from-account exists and belongs to the caller.
CheckFrom(accounts, o, f) ==
    IF f \notin DOMAIN accounts THEN CodeAccountNotFound
    ELSE IF accounts[f].owner # o THEN CodeUnauthorized
    ELSE CodeSuccess

\* CheckTo with step 4 written as "<=": a transfer of the whole balance is
\* refused.
CheckTo_RefusesWholeBalance(accounts, from, t, a) ==
    IF t \notin DOMAIN accounts THEN CodeAccountNotFound
    ELSE IF from.currency # accounts[t].currency THEN CodeInvalidRequest
    ELSE IF from.balance <= a THEN CodeInsufficientBalance
    ELSE CodeSuccess

\* Steps 2-4: the to-account exists, the currencies agree, and the balance
\* read in step 1 covers the amount.
CheckTo(accounts, from, t, a) ==
    IF t \notin DOMAIN accounts THEN CodeAccountNotFound
    ELSE IF from.currency # accounts[t].currency THEN CodeInvalidRequest
    ELSE IF from.balance < a THEN CodeInsufficientBalance
    ELSE CodeSuccess

\* A request arrives (requests are numbered as they arrive): the handler
\* validates it and the service reads the from-account.
Request(p) ==
    /\ pc[p] = "idle"
    /\ \A q \in Procs : q < p => pc[q] # "idle"
    /\ \E o \in Users, f \in RequestIDs, t \in RequestIDs,
          a \in (0 - MaxNegAmount)..MaxAmount :
         IF ValidateRequest(f, t, a) # CodeSuccess
         THEN Return(p, ValidateRequest(f, t, a))
         ELSE IF CheckFrom(db.accounts, o, f) # CodeSuccess
         THEN Return(p, CheckFrom(db.accounts, o, f))
         ELSE /\ req' = [req EXCEPT ![p] = [owner |-> o, from |-> f, to |-> t, amount |-> a]]
              /\ fromAccount' = [fromAccount EXCEPT ![p] = db.accounts[f]]
              /\ pc' = [pc EXCEPT ![p] = "getTo"]
              /\ UNCHANGED err
    /\ UNCHANGED <<db, txOpen, txWrites, committed>>
    /\ UNCHANGED <<acctReq, authVars>>

\* The service reads the to-account and decides whether to run the transfer.
GetTo(p) ==
    /\ pc[p] = "getTo"
    /\ LET code == CheckTo(db.accounts, fromAccount[p], req[p].to, req[p].amount)
       IN  IF code # CodeSuccess
           THEN Return(p, code)
           ELSE /\ pc' = [pc EXCEPT ![p] = "begin"]
                /\ UNCHANGED <<err, req, fromAccount>>
    /\ UNCHANGED <<db, txOpen, txWrites, committed>>
    /\ UNCHANGED <<acctReq, authVars>>

\* ------------------------------------------- GormTxManager.Transaction
\* Step 5: t.db.Transaction(fc) begins a transaction on the root handle
\* (background context), runs fc, then commits or rolls back.
Begin(p) ==
    /\ pc[p] = "begin"
    /\ txOpen' = [txOpen EXCEPT ![p] = TRUE]
    /\ pc' = [pc EXCEPT ![p] = "createTransfer"]
    /\ UNCHANGED <<db, txWrites, req, fromAccount, err, committed>>
    /\ UNCHANGED <<acctReq, authVars>>

\* ------------------------------------------------- service: execTransfer
\* A repository insert that the database accepts.
Insert(p, w, next) ==
    /\ Exec(p, w)
    /\ pc' = [pc EXCEPT ![p] = next]
    /\ UNCHANGED err

\* 1. the Transfer row
CreateTransferRow(p) ==
    /\ pc[p] = "createTransfer"
    /\ Insert(p, WTransfer(p), "createFromEntry")
    /\ UNCHANGED <<txOpen, req, fromAccount>>
    /\ UNCHANGED <<acctReq, authVars>>

\* CreateFromEntry inserting the to-account Entry in its place.
CreateFromEntry_ToEntryFirst(p) ==
    /\ pc[p] = "createFromEntry"
    /\ Insert(p, WEntry(p, req[p].to, req[p].amount), "createToEntry")
    /\ UNCHANGED <<txOpen, req, fromAccount>>
    /\ UNCHANGED <<acctReq, authVars>>

\* 2. the from-account Entry, amount negated
CreateFromEntry(p) ==
    /\ pc[p] = "createFromEntry"
    /\ Insert(p, WEntry(p, req[p].from, -req[p].amount), "createToEntry")
    /\ UNCHANGED <<txOpen, req, fromAccount>>
    /\ UNCHANGED <<acctReq, authVars>>

\* 3. the to-account Entry
CreateToEntry(p) ==
    /\ pc[p] = "createToEntry"
    /\ Insert(p, WEntry(p, req[p].to, req[p].amount), "update1")
    /\ UNCHANGED <<txOpen, req, fromAccount>>
    /\ UNCHANGED <<acctReq, authVars>>

\* AddMoneyArgs with the from-account always first.
AddMoneyArgs_FromFirst(from, to, amount) == <<from, -amount, to, amount>>

\* 4. the arguments execTransfer hands to addMoney: the account with the
\* smaller id first.  <<accountID1, amount1, accountID2, amount2>>
AddMoneyArgs(from, to, amount) ==
    IF from < to THEN <<from, -amount, to, amount>>
                 ELSE <<to, amount, from, -amount>>

\* Rows whose lock an open transaction holds: those it has updated and not
\* yet committed.
RowsHeld(q) == { BalanceWrites(txWrites[q])[i].account :
                   i \in 1..Len(BalanceWrites(txWrites[q])) }

\* The row an update of p is about to lock.
UpdateTarget(p) ==
    LET a == AddMoneyArgs(req[p].from, req[p].to, req[p].amount)
    IN  IF pc[p] = "update1" THEN a[1] ELSE a[3]

\* p waits for a row lock held by q's transaction.
WaitsFor(p, q) ==
    /\ p # q
    /\ pc[p] \in {"update1", "update2"}
    /\ UpdateTarget(p) \in RowsHeld(q)

\* AccountRepository.UpdateBalance, first statement: the atomic increment.
UpdateBalance(p) ==
    /\ pc[p] \in {"update1", "update2"}
    /\ LET a == AddMoneyArgs(req[p].from, req[p].to, req[p].amount)
           id == IF pc[p] = "update1" THEN a[1] ELSE a[3]
           delta == IF pc[p] = "update1" THEN a[2] ELSE a[4]
       IN  /\ \A q \in Procs : ~WaitsFor(p, q)
           /\ Exec(p, WBalance(p, id, delta))
           /\ pc' = [pc EXCEPT ![p] = IF pc[p] = "update1" THEN "read1" ELSE "read2"]
           /\ UNCHANGED err
    /\ UNCHANGED <<txOpen, req, fromAccount>>
    /\ UNCHANGED <<acctReq, authVars>>

\* AccountRepository.UpdateBalance, second statement: read the row back.
ReadBack(p) ==
    /\ pc[p] \in {"read1", "read2"}
    /\ pc' = [pc EXCEPT ![p] = IF pc[p] = "read1" THEN "update2" ELSE "commit"]
    /\ UNCHANGED <<db, txOpen, txWrites, req, fromAccount, err, committed>>
    /\ UNCHANGED <<acctReq, authVars>>

\* fc returned nil: the transaction commits what was written on its handle.
Commit(p) ==
    /\ pc[p] = "commit"
    /\ db' = ApplyAll(db, txWrites[p])
    /\ committed' = [committed EXCEPT ![p] =
                        IF txWrites[p] = << >> THEN @ ELSE Append(@, txWrites[p])]
    /\ txWrites' = [txWrites EXCEPT ![p] = << >>]
    /\ txOpen' = [txOpen EXCEPT ![p] = FALSE]
    /\ Return(p, CodeSuccess)
    /\ UNCHANGED <<acctReq, authVars>>

\* Rollback that also deletes the rows the failed transfer had inserted.
Rollback_DeletesRows(p) ==
    /\ pc[p] = "rollback"
    /\ txWrites' = [txWrites EXCEPT ![p] = << >>]
    /\ txOpen' = [txOpen EXCEPT ![p] = FALSE]
    /\ Return(p, err[p])
    /\ db' = [db EXCEPT !.transfers = { r \in @ : r.by # p },
                        !.entries = { e \in @ : e.by # p }]
    /\ UNCHANGED committed
    /\ UNCHANGED <<acctReq, authVars>>

\* fc returned an error: the transaction drops what was written on its
\* handle and Transaction returns fc's error.
Rollback(p) ==
    /\ pc[p] = "rollback"
    /\ txWrites' = [txWrites EXCEPT ![p] = << >>]
    /\ txOpen' = [txOpen EXCEPT ![p] = FALSE]
    /\ Return(p, err[p])
    /\ UNCHANGED <<db, committed>>
    /\ UNCHANGED <<acctReq, authVars>>

\* The client goes away or the request times out while fc runs:
\* c.Request.Context() is cancelled, and the repository statement p issues
\* next with it fails with a database error, which fc returns.  (Begin,
\* Commit and Rollback run on the background context.  A cancellation
\* before Begin only makes a precondition read fail, which returns before
\* anything is written; it is not modelled.)
Statements ==
    {"createTransfer", "createFromEntry", "createToEntry",
     "update1", "read1", "update2", "read2"}

Cancelled(p) ==
    /\ pc[p] \in Statements
    /\ Fail(p, CodeDatabaseError, "rollback")
    /\ UNCHANGED <<db, txOpen, txWrites, req, fromAccount, committed>>
    /\ UNCHANGED <<acctReq, authVars>>

Step(p) ==
    \/ GetTo(p)
    \/ Begin(p)
    \/ CreateTransferRow(p)
    \/ CreateFromEntry(p)
    \/ CreateToEntry(p)
    \/ UpdateBalance(p)
    \/ ReadBack(p)
    \/ Commit(p)
    \/ Rollback(p)

Next ==
    \E p \in Procs :
        \/ Request(p)
        \/ Step(p)
        \/ Cancelled(p)

Spec == Init /\ [][Next]_vars

\* The same server with its requests made one after the other: a request
\* arrives only when no other one is being served.
SeqRequest(p) ==
    /\ \A q \in Procs \ {p} : pc[q] \in {"idle", "done"}
    /\ Request(p)

SeqNext ==
    \E p \in Procs :
        \/ SeqRequest(p)
        \/ Step(p)
        \/ Cancelled(p)

SeqSpec == Init /\ [][SeqNext]_vars

\* TransferService.CreateTransfer invoked directly, without the handler and
\* its validation, by a caller that keeps to amount > 0: step 1 is all that
\* stands before the rest of the service.
ServiceCall(p) ==
    /\ pc[p] = "idle"
    /\ \A q \in Procs : q < p => pc[q] # "idle"
    /\ \E o \in Users, f \in RequestIDs, t \in RequestIDs, a \in 1..MaxAmount :
         IF CheckFrom(db.accounts, o, f) # CodeSuccess
         THEN Return(p, CheckFrom(db.accounts, o, f))
         ELSE /\ req' = [req EXCEPT ![p] = [owner |-> o, from |-> f, to |-> t, amount |-> a]]
              /\ fromAccount' = [fromAccount EXCEPT ![p] = db.accounts[f]]
              /\ pc' = [pc EXCEPT ![p] = "getTo"]
              /\ UNCHANGED err
    /\ UNCHANGED <<db, txOpen, txWrites, committed>>
    /\ UNCHANGED <<acctReq, authVars>>

DirectNext ==
    \E p \in Procs :
        \/ ServiceCall(p)
        \/ Step(p)
        \/ Cancelled(p)

DirectSpec == Init /\ [][DirectNext]_vars

\* ------------------------------------------ AccountService.CreateAccount
\* An account of this owner and currency exists.
HasAccount(accounts, o, c) ==
    \E id \in DOMAIN accounts : accounts[id].owner = o /\ accounts[id].currency = c

\* The handler binds the request (currency one of Currencies) and step 1 of
\* the service looks the pair up: AlreadyExists when it is found.
CreateAccountRequest(p) ==
    /\ pc[p] = "idle"
    /\ \A q \in Procs : q < p => pc[q] # "idle"
    /\ \E o \in Users, c \in Currencies :
         /\ acctReq' = [acctReq EXCEPT ![p] = [owner |-> o, currency |-> c]]
         /\ IF HasAccount(db.accounts, o, c)
            THEN /\ pc' = [pc EXCEPT ![p] = "done"]
                 /\ err' = [err EXCEPT ![p] = CodeAlreadyExists]
            ELSE /\ pc' = [pc EXCEPT ![p] = "createAccount"]
                 /\ UNCHANGED err
    /\ UNCHANGED <<db, txOpen, txWrites, req, fromAccount, committed, authVars>>

\* InsertAccount without the unique index on (owner, currency).
InsertAccount_NoUniqueIndex(p) ==
    /\ pc[p] = "createAccount"
    /\ db' = [db EXCEPT !.accounts =
                 Append(@, [owner |-> acctReq[p].owner,
                            currency |-> acctReq[p].currency, balance |-> 0])]
    /\ err' = [err EXCEPT ![p] = CodeSuccess]
    /\ pc' = [pc EXCEPT ![p] = "done"]
    /\ UNCHANGED <<txOpen, txWrites, req, fromAccount, committed, acctReq, authVars>>

\* Steps 2-3: the account, balance 0, is inserted.  The unique index on
\* (owner, currency) refuses a second row for the pair; the repository
\* answers AlreadyExists when gorm reports ErrDuplicatedKey and a database
\* error otherwise.
InsertAccount(p) ==
    /\ pc[p] = "createAccount"
    /\ IF HasAccount(db.accounts, acctReq[p].owner, acctReq[p].currency)
       THEN /\ err' = [err EXCEPT ![p] =
                         IF TranslateError THEN CodeAlreadyExists ELSE CodeDatabaseError]
            /\ UNCHANGED db
       ELSE /\ db' = [db EXCEPT !.accounts =
                         Append(@, [owner |-> acctReq[p].owner,
                                    currency |-> acctReq[p].currency, balance |-> 0])]
            /\ err' = [err EXCEPT ![p] = CodeSuccess]
    /\ pc' = [pc EXCEPT ![p] = "done"]
    /\ UNCHANGED <<txOpen, txWrites, req, fromAccount, committed, acctReq, authVars>>

\* The server with both kinds of request: each request is a transfer or the
\* creation of an account.
ServerNext ==
    \E p \in Procs :
        \/ Request(p)
        \/ Step(p)
        \/ Cancelled(p)
        \/ CreateAccountRequest(p)
        \/ InsertAccount(p)

ServerSpec == Init /\ [][ServerNext]_vars

\* Every request that was accepted keeps running: the Go scheduler runs each
\* request's goroutine and the database answers every statement.
FairSpec == Spec /\ \A p \in Procs : WF_vars(Step(p))

\* =================================================================
\* Vocabulary of the properties
\* =================================================================
Succeeded(p) == pc[p] = "done" /\ err[p] = CodeSuccess
Failed(p) == pc[p] = "done" /\ err[p] # CodeSuccess
AllDone == \A p \in Procs : pc[p] = "done"

TransfersBy(p) == { r \in db.transfers : r.by = p }
EntriesBy(p) == { e \in db.entries : e.by = p }

RECURSIVE Flatten(_)
Flatten(events) ==
    IF events = << >> THEN << >> ELSE Head(events) \o Flatten(Tail(events))

\* Every committed write of p, in commit order.
DurableWrites(p) == Flatten(committed[p])
Range(seq) == { seq[i] : i \in 1..Len(seq) }

\* The five writes of the transfer p was asked for.
TransferWrites(p) ==
    { WTransfer(p),
      WEntry(p, req[p].from, -req[p].amount),
      WEntry(p, req[p].to, req[p].amount),
      WBalance(p, req[p].from, -req[p].amount),
      WBalance(p, req[p].to, req[p].amount) }

RECURSIVE SumAmount(_)
SumAmount(S) ==
    IF S = {} THEN 0
    ELSE LET x == CHOOSE y \in S : TRUE IN x.amount + SumAmount(S \ {x})

RECURSIVE SumBalance(_)
SumBalance(accounts) ==
    IF accounts = << >> THEN 0
    ELSE Head(accounts).balance + SumBalance(Tail(accounts))

EntrySum(id) == SumAmount({ e \in db.entries : e.account = id })

\* =================================================================
\* Properties
\* =================================================================

\* C1 - atomicity on failure: a CreateTransfer that returned an error has
\* left nothing behind: no Transfer row, no Entry row and no balance change
\* of that attempt is committed.
C1_AtomicOnFailure ==
    \A p \in Procs :
        Failed(p) => /\ TransfersBy(p) = {}
                     /\ EntriesBy(p) = {}
                     /\ DurableWrites(p) = << >>

\* C2 - no negative balances: in every committed state every account's
\* balance is >= 0.
C2_NoNegativeBalance ==
    \A id \in DOMAIN db.accounts : db.accounts[id].balance >= 0

\* C3 - balance conservation: in every committed state the sum of all
\* account balances equals the initial sum.
C3_BalanceConservation ==
    SumBalance(db.accounts) = SumBalance(SeedAccounts)

\* C4 - ledger consistency: at all times, for every account, the sum of the
\* amounts of its Entry rows equals its balance minus its seeded balance.
C4_LedgerConsistency ==
    \A id \in DOMAIN db.accounts :
        EntrySum(id) = db.accounts[id].balance - SeedAccounts[id].balance

\* What does hold of a successful CreateTransfer: its five writes, and only
\* they, are durable when it returns - whatever commits made them so.
SuccessWritesAll ==
    \A p \in Procs :
        Succeeded(p) => /\ Len(DurableWrites(p)) = 5
                        /\ Range(DurableWrites(p)) = TransferWrites(p)

\* C5 - success postcondition: a CreateTransfer that returned success has
\* committed together (in one commit) exactly one Transfer row (from, to,
\* amount), exactly two Entry rows, the decrease of the from-balance by
\* amount and the increase of the to-balance by amount.
C5_SuccessCommitsTogether ==
    \A p \in Procs :
        Succeeded(p) => /\ Len(committed[p]) = 1
                        /\ Len(committed[p][1]) = 5
                        /\ Range(committed[p][1]) = TransferWrites(p)
                        /\ Cardinality(TransfersBy(p)) = 1
                        /\ Cardinality(EntriesBy(p)) = 2

\* C6 - double-entry pairing: in every committed state each Transfer row has
\* exactly two Entry rows of its transaction, -amount on from_account_id and
\* +amount on to_account_id, so there are twice as many entries as transfers.
C6_DoubleEntryPairing ==
    /\ \A r \in db.transfers :
           EntriesBy(r.by) = { [by |-> r.by, account |-> r.from, amount |-> -r.amount],
                               [by |-> r.by, account |-> r.to, amount |-> r.amount] }
    /\ Cardinality(db.entries) = 2 * Cardinality(db.transfers)

\* Requests that succeeded in moving money out of account id, and their total.
SucceededFrom(id) == { p \in Procs : Succeeded(p) /\ req[p].from = id }

RECURSIVE SumRequested(_)
SumRequested(ps) ==
    IF ps = {} THEN 0
    ELSE LET p == CHOOSE q \in ps : TRUE IN req[p].amount + SumRequested(ps \ {p})

\* No committed write credits account id.
NeverCredited(id) ==
    \A p \in Procs : \A w \in Range(DurableWrites(p)) :
        ~(w.kind = "balance" /\ w.account = id /\ w.amount > 0)

\* C7 - concurrent overdraw: of the requests out of one source account (that
\* receives nothing meanwhile) only a subset whose total fits within its
\* balance succeeds, and the source balance never goes negative.
C7_OverdrawSubsetFits ==
    \A id \in DOMAIN db.accounts :
        NeverCredited(id) =>
            /\ SumRequested(SucceededFrom(id)) <= SeedAccounts[id].balance
            /\ db.accounts[id].balance >= 0

\* The step in which the debit of p takes effect on the from-account.
DebitStep(p) ==
    /\ pc[p] \in {"update1", "update2"}
    /\ pc'[p] \in {"read1", "read2"}
    /\ UpdateTarget(p) = req[p].from

\* C8 - in-transaction re-validation: a transfer executes its debit only when
\* the source balance at that moment covers the amount; one whose source was
\* drained since the precondition check fails instead.
C8_DebitOnlyWhenCovered ==
    [][\A p \in Procs :
          DebitStep(p) => db.accounts[req[p].from].balance >= req[p].amount]_vars

\* No two transfers each wait for an account row the other holds.
NoCircularWait ==
    \A p, q \in Procs : ~(WaitsFor(p, q) /\ WaitsFor(q, p))

\* Every request that has arrived completes.
EveryTransferCompletes ==
    \A p \in Procs : (pc[p] # "idle") ~> (pc[p] = "done")

\* The transfers that started executing run between the same two accounts, in
\* both directions.
Alternating ==
    \E r1, r2 \in db.transfers :
        /\ r1.from = r2.to /\ r1.to = r2.from
        /\ \A r \in db.transfers : {r.from, r.to} = {r1.from, r1.to}

\* C9 - deadlock freedom: of concurrent transfers between the same two
\* accounts in alternating directions every one eventually completes, no two
\* ever wait for each other's account row, and the final balances satisfy
\* conservation.
C9_DeadlockFreeAndConserving ==
    /\ EveryTransferCompletes
    /\ []NoCircularWait
    /\ []((AllDone /\ Alternating) => SumBalance(db.accounts) = SumBalance(SeedAccounts))

\* Committed balance updates of p.
DurableBalanceWrites(p) == BalanceWrites(DurableWrites(p))

\* C10 - no partial state is observable: the writes of a transfer are made on
\* its transaction, so no Transfer or Entry row of a transfer that is still
\* in progress or that fails is ever committed, and never exactly one of its
\* two balance updates.
C10_NoPartialState ==
    \A p \in Procs :
        /\ ~Succeeded(p) => TransfersBy(p) = {} /\ EntriesBy(p) = {}
        /\ Len(DurableBalanceWrites(p)) # 1

\* What does hold of Transaction: the error it returns, and CreateTransfer
\* after it, is the one fc returned.
RollbackKeepsError ==
    [][\A p \in Procs :
          (pc[p] = "rollback" /\ pc'[p] = "done") => err'[p] = err[p]]_vars

\* C11 - Transaction Executor contract: the writes made by fc are committed
\* if and only if fc returns nil; when fc returns an error they are rolled
\* back, and that same error is what Transaction and CreateTransfer return.
C11_CommitsIffNil ==
    /\ [](\A p \in Procs :
             pc[p] = "done" => ((DurableWrites(p) # << >>) <=> (err[p] = CodeSuccess)))
    /\ RollbackKeepsError

\* C12 - cancellation: when the caller's context is cancelled between the
\* first and the last write of a transfer, the transaction rolls back
\* entirely and none of the writes the transfer made stays committed.
C12_CancelRollsBackAll ==
    [][\A p \in Procs :
          (pc[p] = "rollback" /\ pc'[p] = "done" /\ err[p] = CodeDatabaseError)
              => /\ committed'[p] = << >>
                 /\ { r \in db'.transfers : r.by = p } = {}
                 /\ { e \in db'.entries : e.by = p } = {}]_vars

\* The step in which step 4 of CreateTransfer decides about p: the to-account
\* exists and has the currency of the from-account.
BalanceDecided(p) ==
    /\ pc[p] = "getTo"
    /\ pc'[p] # "getTo"
    /\ req[p].to \in DOMAIN db.accounts
    /\ db.accounts[req[p].from].currency = db.accounts[req[p].to].currency

\* C13 - insufficient balance, sequential case: with no concurrent activity
\* CreateTransfer fails with InsufficientBalance exactly when the amount
\* exceeds the source balance, changing no balance and creating no row; a
\* transfer of exactly the source balance succeeds and leaves the source at 0.
C13_InsufficientSequential ==
    [][\A p \in Procs :
          /\ BalanceDecided(p) =>
                IF req[p].amount > db.accounts[req[p].from].balance
                THEN /\ pc'[p] = "done"
                     /\ err'[p] = CodeInsufficientBalance
                     /\ db' = db
                     /\ committed'[p] = << >>
                ELSE /\ pc'[p] = "begin"
                     /\ err'[p] = CodeSuccess
          /\ (err'[p] = CodeInsufficientBalance /\ err[p] # CodeInsufficientBalance)
                => /\ pc[p] = "getTo"
                   /\ req[p].amount > db.accounts[req[p].from].balance
          /\ (pc[p] = "commit" /\ pc'[p] = "done" /\ req[p].amount = fromAccount[p].balance)
                => /\ err'[p] = CodeSuccess
                   /\ db'.accounts[req[p].from].balance = 0]_vars

\* One request was refused for insufficient balance and another one moved the
\* whole balance of its source.
C13_Witness ==
    \E p, q \in Procs :
        /\ pc[p] = "done" /\ err[p] = CodeInsufficientBalance
        /\ Succeeded(q) /\ req[q].amount > 0
        /\ db.accounts[req[q].from].balance = 0

\* C14 - AccountNotFound: a transfer whose from-account id or whose
\* to-account id has no row fails with AccountNotFound (40403, HTTP 404) and
\* writes nothing, for the source (step 1) and the destination (step 2) alike.
C14_AccountNotFound ==
    /\ [](\A o \in Users : \A f \in RequestIDs \ DOMAIN db.accounts :
             CheckFrom(db.accounts, o, f) = CodeAccountNotFound)
    /\ [][\A p \in Procs :
             /\ (pc[p] = "idle" /\ pc'[p] = "getTo") => req'[p].from \in DOMAIN db.accounts
             /\ (pc[p] = "getTo" /\ pc'[p] # "getTo" /\ req[p].to \notin DOMAIN db.accounts)
                   => /\ pc'[p] = "done"
                      /\ err'[p] = CodeAccountNotFound
                      /\ db' = db]_vars
    /\ [](\A p \in Procs :
             err[p] = CodeAccountNotFound
                 => /\ pc[p] = "done"
                    /\ DurableWrites(p) = << >>
                    /\ codeToHTTPStatus(err[p]) = 404)

\* One request was answered AccountNotFound and wrote nothing, and another
\* one names a destination that has no row.
C14_Witness ==
    \E p, q \in Procs :
        /\ pc[p] = "done" /\ err[p] = CodeAccountNotFound /\ DurableWrites(p) = << >>
        /\ pc[q] = "getTo" /\ req[q].to \notin DOMAIN db.accounts

\* C16 - currency mismatch: a transfer between accounts of different
\* currencies is rejected before any write with the CurrencyMismatch error
\* kind (42202), which maps to HTTP 422; no row is created, no balance changes.
C16_CurrencyMismatchKind ==
    [][\A p \in Procs :
          (/\ pc[p] = "getTo"
           /\ pc'[p] # "getTo"
           /\ req[p].to \in DOMAIN db.accounts
           /\ fromAccount[p].currency # db.accounts[req[p].to].currency)
              => /\ pc'[p] = "done"
                 /\ err'[p] = CodeCurrencyMismatch
                 /\ codeToHTTPStatus(err'[p]) = 422
                 /\ db' = db]_vars

\* What does hold of a currency mismatch: it is rejected before any write,
\* with code 40002 (HTTP 400).
CurrencyMismatchRejected ==
    [][\A p \in Procs :
          (/\ pc[p] = "getTo"
           /\ pc'[p] # "getTo"
           /\ req[p].to \in DOMAIN db.accounts
           /\ fromAccount[p].currency # db.accounts[req[p].to].currency)
              => /\ pc'[p] = "done"
                 /\ err'[p] = CodeInvalidRequest
                 /\ codeToHTTPStatus(err'[p]) = 400
                 /\ db' = db
                 /\ committed'[p] = << >>]_vars

\* C15 - same-account transfers: the transfer engine itself treats
\* fromAccountID = toAccountID as a hard error of kind SameAccount (42203)
\* and writes nothing, also when it is invoked directly and not through the
\* handler: no same-account call writes anything or succeeds.
C15_EngineRejectsSameAccount ==
    \A p \in Procs :
        /\ (req[p] # NoReq /\ req[p].from = req[p].to)
              => /\ ~Succeeded(p)
                 /\ DurableWrites(p) = << >>
        /\ \A r \in TransfersBy(p) : r.from # r.to
        /\ (pc[p] = "done" /\ err[p] = CodeSameAccount) => DurableWrites(p) = << >>

\* What does hold: through the HTTP handler no same-account request reaches
\* the service.
HandlerRejectsSameAccount ==
    \A p \in Procs : req[p] # NoReq => req[p].from # req[p].to

\* C17 - ownership precondition: a CreateTransfer by a caller who does not
\* own the from-account is rejected before the transaction starts, whatever
\* the balance and the currencies; no row is created and no balance changes:
\* money leaves an account only at its owner's request.
C17_OwnershipPrecondition ==
    /\ [](\A o \in Users : \A f \in DOMAIN db.accounts :
             db.accounts[f].owner # o => CheckFrom(db.accounts, o, f) = CodeUnauthorized)
    /\ [][\A p \in Procs :
             /\ (pc[p] = "idle" /\ pc'[p] = "getTo")
                   => db.accounts[req'[p].from].owner = req'[p].owner
             /\ (txOpen'[p] /\ ~txOpen[p])
                   => db.accounts[req[p].from].owner = req[p].owner
             /\ DebitStep(p) => db.accounts[req[p].from].owner = req[p].owner]_vars
    /\ [](\A p \in Procs :
             err[p] = CodeUnauthorized
                 => /\ pc[p] = "done"
                    /\ ~txOpen[p]
                    /\ DurableWrites(p) = << >>)

\* A request was refused as unauthorized and wrote nothing, while another
\* one, made by the owner of its source, has debited it.
C17_Witness ==
    \E p, q \in Procs :
        /\ pc[p] = "done" /\ err[p] = CodeUnauthorized /\ DurableWrites(p) = << >>
        /\ WBalance(q, req[q].from, -req[q].amount) \in Range(DurableWrites(q))
        /\ req[q].amount > 0

\* Two requests with the same from, to and amount that both succeeded.
Duplicates(p, q) ==
    /\ p # q
    /\ Succeeded(p) /\ Succeeded(q)
    /\ req[p].from = req[q].from /\ req[p].to = req[q].to
    /\ req[p].amount = req[q].amount

\* C18 - no idempotency: the engine neither retries nor de-duplicates; two
\* CreateTransfer calls with identical (from, to, amount) that both succeed
\* create two distinct Transfer rows and four Entry rows, each executing its
\* five writes once, and the amount is moved twice.
C18_NoIdempotency ==
    \A p, q \in Procs :
        Duplicates(p, q) =>
            /\ Cardinality(TransfersBy(p) \cup TransfersBy(q)) = 2
            /\ Cardinality(EntriesBy(p) \cup EntriesBy(q)) = 4
            /\ Len(DurableWrites(p)) = 5 /\ Len(DurableWrites(q)) = 5
            /\ (\A r \in Procs \ {p, q} : DurableWrites(r) = << >>)
                  => /\ db.accounts[req[p].from].balance
                          = SeedAccounts[req[p].from].balance - 2 * req[p].amount
                     /\ db.accounts[req[p].to].balance
                          = SeedAccounts[req[p].to].balance + 2 * req[p].amount

\* Two identical transfers of a positive amount both succeeded.
C18_Witness ==
    \E p, q \in Procs : Duplicates(p, q) /\ req[p].amount > 0

\* C19 - append-only ledger: across any sequence of operations the committed
\* Entry rows and Transfer rows only grow - none is updated or deleted - and
\* no account row disappears or changes its owner or currency.
C19_AppendOnly ==
    [][/\ db.transfers \subseteq db'.transfers
       /\ db.entries \subseteq db'.entries
       /\ Len(db'.accounts) >= Len(db.accounts)
       /\ \A id \in DOMAIN db.accounts :
             /\ db'.accounts[id].owner = db.accounts[id].owner
             /\ db'.accounts[id].currency = db.accounts[id].currency]_vars

\* A transfer that failed has run to its end and the rows it inserted are
\* still there, and an account was created since.
C19_Witness ==
    \E p \in Procs :
        /\ Failed(p)
        /\ TransfersBy(p) # {} /\ EntriesBy(p) # {}
        /\ Len(db.accounts) > Len(SeedAccounts)

\* No two account rows have the same owner and currency.
UniquePairs ==
    \A i, j \in DOMAIN db.accounts :
        (/\ db.accounts[i].owner = db.accounts[j].owner
         /\ db.accounts[i].currency = db.accounts[j].currency) => i = j

\* Request p asked for an account and got it.
Created(p) == acctReq[p] # NoAcctReq /\ Succeeded(p)

C21_TransferRowValid ==
    \A r \in db.transfers : r.amount > 0 /\ r.from # r.to

\* A Transfer row is committed while another request was refused by the
\* handler's validation (amount <= 0, or from = to).
C21_Witness ==
    \E p, q \in Procs :
        /\ TransfersBy(p) # {}
        /\ pc[q] = "done" /\ err[q] \in {CodeInvalidParams, CodeSameAccount}


\* =================================================================
\* The read handlers: GetAccount, ListTransfers, ListEntries
\* =================================================================
\* What a read answers: the error code (CodeSuccess = nil), the HTTP status
\* the handler writes, and the data of the body (none with an error).
ReadError(code) == [code |-> code, status |-> codeToHTTPStatus(code), data |-> {}]
ReadOK(data) == [code |-> CodeSuccess, status |-> codeToHTTPStatus(CodeSuccess), data |-> data]

\* TransferRepository.ListByAccountID: from_account_id = ? OR to_account_id = ?
TransfersOfAccount(d, id) == { r \in d.transfers : r.from = id \/ r.to = id }
\* EntryRepository.ListByAccountID: account_id = ?
EntriesOfAccount(d, id) == { e \in d.entries : e.account = id }

\* GetAccount without the comparison of the owner with the caller.
GetAccount_NoOwnerCheck(d, owner, id) ==
    IF id \notin DOMAIN d.accounts
    THEN ReadError(CodeAccountNotFound)
    ELSE ReadOK({[id |-> id, owner |-> d.accounts[id].owner,
                  balance |-> d.accounts[id].balance,
                  currency |-> d.accounts[id].currency]})

\* AccountService.GetAccount: the row is read, then its owner is compared
\* with the authenticated user.
GetAccount(d, owner, id) ==
    IF id \notin DOMAIN d.accounts
    THEN ReadError(CodeAccountNotFound)
    ELSE IF d.accounts[id].owner # owner
    THEN ReadError(CodeUnauthorized)
    ELSE ReadOK({[id |-> id, owner |-> d.accounts[id].owner,
                  balance |-> d.accounts[id].balance,
                  currency |-> d.accounts[id].currency]})

\* TransferService.ListTransfers: the same two checks, then the transfers
\* the account sent or received.
ListTransfers(d, owner, id) ==
    IF id \notin DOMAIN d.accounts
    THEN ReadError(CodeAccountNotFound)
    ELSE IF d.accounts[id].owner # owner
    THEN ReadError(CodeUnauthorized)
    ELSE ReadOK(TransfersOfAccount(d, id))

\* TransferService.ListEntries: the same two checks, then the entries of
\* the account.
ListEntries(d, owner, id) ==
    IF id \notin DOMAIN d.accounts
    THEN ReadError(CodeAccountNotFound)
    ELSE IF d.accounts[id].owner # owner
    THEN ReadError(CodeUnauthorized)
    ELSE ReadOK(EntriesOfAccount(d, id))

ReadOps == {"GetAccount", "ListTransfers", "ListEntries"}

\* What the service answers to read op of account id by the caller.
Read(op, d, owner, id) ==
    CASE op = "GetAccount" -> GetAccount(d, owner, id)
      [] op = "ListTransfers" -> ListTransfers(d, owner, id)
      [] op = "ListEntries" -> ListEntries(d, owner, id)

\* The response of a read handler: the request it answers and the answer.
ReadResp(op, owner, id, r) ==
    [op |-> op, caller |-> owner, id |-> id,
     code |-> r.code, status |-> r.status, data |-> r.data]

\* The handlers: the caller is the user of the access token, the id comes
\* from the path; the answer of the service is written, by handleError when
\* it is an error.
GetAccountHandler(owner, id) ==
    /\ resp' = ReadResp("GetAccount", owner, id, GetAccount(db, owner, id))
    /\ UNCHANGED <<db, txOpen, txWrites, pc, req, fromAccount, err, committed,
                   acctReq, users, sessions, tokens>>

ListTransfersHandler(owner, id) ==
    /\ resp' = ReadResp("ListTransfers", owner, id, ListTransfers(db, owner, id))
    /\ UNCHANGED <<db, txOpen, txWrites, pc, req, fromAccount, err, committed,
                   acctReq, users, sessions, tokens>>

ListEntriesHandler(owner, id) ==
    /\ resp' = ReadResp("ListEntries", owner, id, ListEntries(db, owner, id))
    /\ UNCHANGED <<db, txOpen, txWrites, pc, req, fromAccount, err, committed,
                   acctReq, users, sessions, tokens>>

\* Transfers one at a time, and a read by any user of any id at any moment.
\* A read changes nothing but the response, so a run is followed up to its
\* first read: every read in every state of the tables is among them.
ReadNext ==
    \/ resp = NoResp /\ SeqNext
    \/ \E owner \in Users, id \in RequestIDs :
          /\ resp = NoResp
          /\ \/ GetAccountHandler(owner, id)
             \/ ListTransfersHandler(owner, id)
             \/ ListEntriesHandler(owner, id)

ReadSpec == Init /\ [][ReadNext]_vars

\* The tables as far as they are the caller's: the balance of every account
\* of another user is 0, and only the transfers and entries of the caller's
\* accounts are left.
OwnData(d, owner) ==
    LET mine == { i \in DOMAIN d.accounts : d.accounts[i].owner = owner }
    IN [accounts |-> [i \in DOMAIN d.accounts |->
                         IF i \in mine THEN d.accounts[i]
                         ELSE [d.accounts[i] EXCEPT !.balance = 0]],
        transfers |-> { r \in d.transfers : r.from \in mine \/ r.to \in mine },
        entries |-> { e \in d.entries : e.account \in mine }]

\* A read handler writes its response in this step.
ReadStep == resp' # resp /\ resp'.op \in ReadOps

\* C22 - Read access control: GetAccount, ListTransfers and ListEntries
\* answer with the account's data only when the caller owns the account; to
\* any other caller the response carries no data, and every response equals
\* the one the same request gets when the balances and ledgers of all other
\* users are blanked.
C22_ReadAccessControl ==
    [][ReadStep =>
        LET r == resp'
            owns == r.id \in DOMAIN db.accounts /\ db.accounts[r.id].owner = r.caller
        IN /\ r.code = CodeSuccess <=> owns
           /\ ~owns => r.data = {}
           /\ r = ReadResp(r.op, r.caller, r.id,
                           Read(r.op, OwnData(db, r.caller), r.caller, r.id))]_vars

\* ListTransfers of an account that has transfers is refused to a user who
\* does not own it.
C22_Witness ==
    /\ resp.op = "ListTransfers"
    /\ resp.code = CodeUnauthorized
    /\ TransfersOfAccount(db, resp.id) # {}


\* C23 - GetAccount on an existing account owned by another user answers
\* with HTTP status 403 Forbidden.
C23_ForbiddenForNonOwner ==
    (/\ resp.op = "GetAccount"
     /\ resp.id \in DOMAIN db.accounts
     /\ db.accounts[resp.id].owner # resp.caller)
        => resp.status = 403


\* What the code answers in that case: Unauthorized (40101), HTTP 401.
NonOwnerUnauthorized ==
    (/\ resp.op = "GetAccount"
     /\ resp.id \in DOMAIN db.accounts
     /\ db.accounts[resp.id].owner # resp.caller)
        => resp.code = CodeUnauthorized /\ resp.status = 401


\* =================================================================
\* The user handlers: CreateUser, LoginUser, RefreshToken; the sessions
\* =================================================================
CodeInvalidToken == 40103
CodeForbidden == 40301
CodeAccountBlocked == 40302
CodeNotFound == 40401
CodeUserNotFound == 40402
CodeUsernameExists == 40902
CodePasswordWrong == 42204
CodeInternalError == 50001

MaxTokens == 4         \* tokens the maker signs in a run

\* usernames and passwords a request may carry: carol is not registered at
\* the start
Names == Users \cup {"carol"}
Passwords == {"pw1", "pw2"}

Usernames(us) == { u.username : u \in us }

\* JWTMaker.CreateToken: a payload with a fresh uuid - here the next index -
\* and the username, signed.
CreateToken(tk, username) ==
    [token |-> [id |-> Len(tk) + 1, username |-> username],
     tokens |-> Append(tk, username)]

\* A token as a request presents it: the payload as it was signed, and
\* whether signature and expiry still check (intact).
Presented(tk) ==
    { [id |-> i, username |-> tk[i], intact |-> b] : i \in DOMAIN tk, b \in BOOLEAN }

\* JWTMaker.VerifyToken: the signature is checked, then the expiry.
VerifyToken(tk, t) == t.intact /\ t.id \in DOMAIN tk /\ tk[t.id] = t.username

\* An answer of a user service: error code and HTTP status, no body.
UserError(code) == [code |-> code, status |-> codeToHTTPStatus(code)]

\* UserService.LoginUser answering UserNotFound for an unknown username.
LoginUser_UserNotFound(us, ss, tk, username, password) ==
    LET found == { u \in us : u.username = username }
        access == CreateToken(tk, username)
        refresh == CreateToken(access.tokens, username)
    IN IF found = {}
       THEN [resp |-> UserError(CodeUserNotFound), sessions |-> ss, tokens |-> tk]
       ELSE IF \A u \in found : ~CheckPassword(password, u.hashedPassword)
       THEN [resp |-> UserError(CodePasswordWrong), sessions |-> ss, tokens |-> tk]
       ELSE [resp |-> [code |-> CodeSuccess, status |-> 200,
                       accessToken |-> access.token,
                       refreshToken |-> refresh.token,
                       sessionID |-> refresh.token.id],
             sessions |-> ss \cup {[id |-> refresh.token.id, username |-> username,
                                    refreshToken |-> refresh.token,
                                    isBlocked |-> FALSE]},
             tokens |-> refresh.tokens]

\* UserService.LoginUser: the user is looked up (any error: PasswordWrong),
\* the password checked (PasswordWrong), an access and a refresh token are
\* made, and the session - id of the refresh token's payload, not blocked -
\* is inserted.
LoginUser(us, ss, tk, username, password) ==
    LET found == { u \in us : u.username = username }
        access == CreateToken(tk, username)
        refresh == CreateToken(access.tokens, username)
    IN IF found = {}
       THEN [resp |-> UserError(CodePasswordWrong), sessions |-> ss, tokens |-> tk]
       ELSE IF \A u \in found : ~CheckPassword(password, u.hashedPassword)
       THEN [resp |-> UserError(CodePasswordWrong), sessions |-> ss, tokens |-> tk]
       ELSE [resp |-> [code |-> CodeSuccess, status |-> 200,
                       accessToken |-> access.token,
                       refreshToken |-> refresh.token,
                       sessionID |-> refresh.token.id],
             sessions |-> ss \cup {[id |-> refresh.token.id, username |-> username,
                                    refreshToken |-> refresh.token,
                                    isBlocked |-> FALSE]},
             tokens |-> refresh.tokens]


\* UserService.RefreshToken without the is_blocked check.
RefreshToken_IgnoresBlocked(ss, tk, t) ==
    LET found == { s \in ss : s.id = t.id }
        session == CHOOSE s \in found : TRUE
        access == CreateToken(tk, t.username)
    IN IF ~VerifyToken(tk, t)
       THEN [resp |-> UserError(CodeInvalidToken), tokens |-> tk]
       ELSE IF found = {}
       THEN [resp |-> UserError(CodeNotFound), tokens |-> tk]
       ELSE IF session.username # t.username
       THEN [resp |-> UserError(CodeUnauthorized), tokens |-> tk]
       ELSE IF session.refreshToken # [id |-> t.id, username |-> t.username]
       THEN [resp |-> UserError(CodeInvalidToken), tokens |-> tk]
       ELSE [resp |-> [code |-> CodeSuccess, status |-> 200,
                       accessToken |-> access.token],
             tokens |-> access.tokens]

\* UserService.RefreshToken: the token is verified (InvalidToken), the
\* session of the payload's id is read (NotFound), it must not be blocked
\* (AccountBlocked), must be of the payload's user (Unauthorized) and hold
\* this very token (InvalidToken); then a new access token is made.
RefreshToken(ss, tk, t) ==
    LET found == { s \in ss : s.id = t.id }
        session == CHOOSE s \in found : TRUE
        access == CreateToken(tk, t.username)
    IN IF ~VerifyToken(tk, t)
       THEN [resp |-> UserError(CodeInvalidToken), tokens |-> tk]
       ELSE IF found = {}
       THEN [resp |-> UserError(CodeNotFound), tokens |-> tk]
       ELSE IF session.isBlocked
       THEN [resp |-> UserError(CodeAccountBlocked), tokens |-> tk]
       ELSE IF session.username # t.username
       THEN [resp |-> UserError(CodeUnauthorized), tokens |-> tk]
       ELSE IF session.refreshToken # [id |-> t.id, username |-> t.username]
       THEN [resp |-> UserError(CodeInvalidToken), tokens |-> tk]
       ELSE [resp |-> [code |-> CodeSuccess, status |-> 200,
                       accessToken |-> access.token],
             tokens |-> access.tokens]

bankVars == <<db, txOpen, txWrites, pc, req, fromAccount, err, committed, acctReq>>

\* POST /users: the password is hashed and the user inserted; the unique
\* index on username refuses a second row, which the repository answers
\* with UsernameExists when gorm reports ErrDuplicatedKey and with a
\* database error otherwise.
CreateUserHandler(username, password) ==
    /\ IF username \in Usernames(users)
       THEN /\ resp' = [op |-> "CreateUser", username |-> username,
                        answer |-> UserError(IF TranslateError THEN CodeUsernameExists
                                             ELSE CodeDatabaseError)]
            /\ UNCHANGED users
       ELSE /\ users' = users \cup {[username |-> username,
                                      hashedPassword |-> HashPassword(password)]}
            /\ resp' = [op |-> "CreateUser", username |-> username,
                        answer |-> [code |-> CodeSuccess, status |-> 201]]
    /\ UNCHANGED <<bankVars, sessions, tokens>>

\* POST /users/login
LoginUserHandler(username, password) ==
    LET r == LoginUser(users, sessions, tokens, username, password)
    IN /\ Len(r.tokens) <= MaxTokens
       /\ resp' = [op |-> "LoginUser", username |-> username,
                   password |-> password, answer |-> r.resp]
       /\ sessions' = r.sessions
       /\ tokens' = r.tokens
       /\ UNCHANGED <<bankVars, users>>

\* POST /tokens/renew
RefreshTokenHandler(t) ==
    LET r == RefreshToken(sessions, tokens, t)
    IN /\ Len(r.tokens) <= MaxTokens
       /\ resp' = [op |-> "RefreshToken", token |-> t, answer |-> r.resp]
       /\ tokens' = r.tokens
       /\ UNCHANGED <<bankVars, users, sessions>>

\* SessionRepository.Block: UPDATE sessions SET is_blocked = true WHERE id = ?,
\* NotFound when no row was affected.
Block(id) ==
    /\ IF \E s \in sessions : s.id = id
       THEN /\ sessions' = { IF s.id = id THEN [s EXCEPT !.isBlocked = TRUE] ELSE s :
                             s \in sessions }
            /\ resp' = [op |-> "Block", id |-> id, answer |-> [code |-> CodeSuccess]]
       ELSE /\ resp' = [op |-> "Block", id |-> id, answer |-> UserError(CodeNotFound)]
            /\ UNCHANGED sessions
    /\ UNCHANGED <<bankVars, users, tokens>>

\* SessionRepository.DeleteByUsername: DELETE FROM sessions WHERE username = ?
DeleteByUsername(username) ==
    /\ sessions' = { s \in sessions : s.username # username }
    /\ resp' = [op |-> "DeleteByUsername", username |-> username,
                answer |-> [code |-> CodeSuccess]]
    /\ UNCHANGED <<bankVars, users, tokens>>

\* The user side of the server: registrations, logins and renewals by any
\* client, and the two session operations the repository offers.
SessionNext ==
    \/ \E username \in Names, password \in Passwords :
          \/ CreateUserHandler(username, password)
          \/ LoginUserHandler(username, password)
    \/ \E t \in Presented(tokens) : RefreshTokenHandler(t)
    \/ \E id \in 1..MaxTokens : Block(id)
    \/ \E username \in Names : DeleteByUsername(username)

SessionSpec == Init /\ [][SessionNext]_vars


\* The session of token id is missing or blocked.
NoLiveSession(id) == \A s \in sessions : s.id = id => s.isBlocked

\* C24 - Session revocation: RefreshToken makes a new access token only when
\* the session of the refresh token's payload id exists and is not blocked;
\* a successful Block(id) leaves the session blocked and DeleteByUsername
\* leaves the user without session; a session that is blocked or removed
\* stays so whatever happens next - is_blocked never returns to false, a
\* removed id never gets a session again - so that every later RefreshToken
\* with its refresh token fails.
C24_SessionRevocation ==
    [][/\ (resp' # resp /\ resp'.op = "RefreshToken" /\ resp'.answer.code = CodeSuccess)
            => \E s \in sessions : s.id = resp'.token.id /\ ~s.isBlocked
       /\ (resp' # resp /\ resp'.op = "Block" /\ resp'.answer.code = CodeSuccess)
            => \E s \in sessions' : s.id = resp'.id /\ s.isBlocked
       /\ (resp' # resp /\ resp'.op = "DeleteByUsername")
            => \A s \in sessions' : s.username # resp'.username
       /\ \A id \in DOMAIN tokens : NoLiveSession(id) => NoLiveSession(id)'
       /\ \A s \in sessions : s.isBlocked =>
              \A s2 \in sessions' : s2.id = s.id => s2.isBlocked]_vars

\* A refresh token is refused because its session was blocked, after the
\* same user has logged in again.
C24_Witness ==
    /\ resp.op = "RefreshToken"
    /\ resp.answer.code = CodeAccountBlocked
    /\ \E s \in sessions : s.username = resp.token.username /\ ~s.isBlocked


\* A login that finds no user, or a user with another password.
LoginRefused ==
    /\ resp' # resp
    /\ resp'.op = "LoginUser"
    /\ \A u \in users : u.username = resp'.username
                           => ~CheckPassword(resp'.password, u.hashedPassword)

\* C30 - Login does not reveal whether a user exists: a login with an
\* unknown username and a login with a known username and a wrong password
\* get the same answer, PasswordWrong (42204, HTTP 422), and make neither
\* session nor token; the whole outcome equals the one the same request has
\* when the username is not in the users table.
C30_LoginHidesUserExistence ==
    [][LoginRefused =>
        /\ resp'.answer = [code |-> CodePasswordWrong, status |-> 422]
        /\ sessions' = sessions
        /\ tokens' = tokens
        /\ [resp |-> resp'.answer, sessions |-> sessions', tokens |-> tokens']
             = LoginUser({ u \in users : u.username # resp'.username },
                         sessions, tokens, resp'.username, resp'.password)]_vars

\* The login of a username that is not registered has been refused, with
\* the password a registered user has.
C30_Witness ==
    /\ resp.op = "LoginUser"
    /\ resp.username \notin Usernames(users)
    /\ resp.answer.code = CodePasswordWrong
    /\ \E u \in users : CheckPassword(resp.password, u.hashedPassword)


\* The tables after the balance of account id, and nothing else, has changed
\* by delta.
BalanceMoved(d, id, delta) == [d EXCEPT !.accounts[id].balance = @ + delta]

\* C25 - Lower-ID-first ordering: in every transfer, with fromID < toID and
\* with fromID > toID, the first balance update is the one of the account
\* with the smaller id and the second the one of the account with the
\* larger id; the from-account is updated by -amount and the to-account by
\* +amount.
C25_LowerIdFirst ==
    [][\A p \in Procs :
          LET from == req[p].from
              to == req[p].to
              lower == IF from < to THEN from ELSE to
              higher == IF from < to THEN to ELSE from
              delta(id) == IF id = from THEN 0 - req[p].amount ELSE req[p].amount
          IN /\ (pc[p] = "update1" /\ pc'[p] # pc[p] /\ pc'[p] # "rollback")
                   => /\ pc'[p] = "read1"
                      /\ db' = BalanceMoved(db, lower, delta(lower))
             /\ (pc[p] = "update2" /\ pc'[p] # pc[p] /\ pc'[p] # "rollback")
                   => /\ pc'[p] = "read2"
                      /\ db' = BalanceMoved(db, higher, delta(higher))]_vars

\* A transfer from the account with the larger id has credited the
\* to-account and not yet debited the from-account.
C25_Witness ==
    \E p \in Procs :
        /\ pc[p] \in {"read1", "update2"}
        /\ req[p].from > req[p].to
        /\ db.accounts[req[p].to].balance > SeedAccounts[req[p].to].balance
        /\ db.accounts[req[p].from].balance = SeedAccounts[req[p].from].balance


\* Every write p has issued so far, in the order of issue.
IssuedWrites(p) == DurableWrites(p) \o txWrites[p]

\* The writes that precede the statement at each position of execTransfer.
WritesBefore(at) ==
    CASE at = "createTransfer" -> 0
      [] at = "createFromEntry" -> 1
      [] at = "createToEntry" -> 2
      [] at = "update1" -> 3
      [] at \in {"read1", "update2"} -> 4
      [] at \in {"read2", "commit"} -> 5

\* The first n of the writes of a transfer, in the order Transfer row,
\* from-Entry, to-Entry, balance update, balance update.
InWriteOrder(p, ws) ==
    /\ Len(ws) <= 5
    /\ \A i \in 1..Len(ws) :
          /\ i = 1 => ws[i].kind = "transfer"
          /\ i \in {2, 3} => ws[i].kind = "entry"
          /\ i \in {4, 5} => ws[i].kind = "balance"
    /\ pc[p] \in Statements \cup {"commit"} =>
          /\ Len(ws) = WritesBefore(pc[p])
          /\ Len(ws) >= 1 => ws[1] = WTransfer(p)
          /\ Len(ws) >= 2 => ws[2] = WEntry(p, req[p].from, 0 - req[p].amount)
          /\ Len(ws) >= 3 => ws[3] = WEntry(p, req[p].to, req[p].amount)

\* C27 - Write order inside a transfer: the Transfer row is written first,
\* then the from-Entry, then the to-Entry, and only then the two balance
\* updates; when a statement fails, the writes before it are all that the
\* transfer has issued, and it issues none afterwards.
C27_WriteOrder ==
    /\ [](\A p \in Procs : InWriteOrder(p, IssuedWrites(p)))
    /\ [][\A p \in Procs :
             /\ (pc[p] \in Statements /\ pc'[p] = "rollback")
                   => /\ Len(IssuedWrites(p)) = WritesBefore(pc[p])
                      /\ IssuedWrites(p)' = IssuedWrites(p)
             /\ pc[p] \in {"rollback", "done"}
                   => IssuedWrites(p)' = IssuedWrites(p)]_vars

\* A transfer has failed at its to-Entry: the Transfer row and the
\* from-Entry are all it has written.
C27_Witness ==
    \E p \in Procs :
        /\ Failed(p)
        /\ Len(IssuedWrites(p)) = 2
        /\ IssuedWrites(p)[2].kind = "entry" /\ IssuedWrites(p)[2].amount < 0


\* The sum of the deltas of the balance writes in ws that are on account id.
RECURSIVE DeltaSum(_, _)
DeltaSum(ws, id) ==
    IF ws = << >> THEN 0
    ELSE (IF Head(ws).kind = "balance" /\ Head(ws).account = id
          THEN Head(ws).amount ELSE 0) + DeltaSum(Tail(ws), id)

\* The sum of the deltas of all committed balance updates on account id, of
\* the requests in P.
RECURSIVE CommittedDelta(_, _)
CommittedDelta(P, id) ==
    IF P = {} THEN 0
    ELSE LET p == CHOOSE q \in P : TRUE
         IN DeltaSum(DurableWrites(p), id) + CommittedDelta(P \ {p}, id)

\* C26 - No lost updates: however the balance updates of concurrent
\* transfers on an account interleave, with each other and with the reads of
\* the precondition checks, the balance of the account is its initial
\* balance plus the sum of the deltas of all updates committed on it.
C26_NoLostUpdates ==
    \A id \in DOMAIN db.accounts :
        db.accounts[id].balance =
            (IF id \in DOMAIN SeedAccounts THEN SeedAccounts[id].balance ELSE 0)
                + CommittedDelta(Procs, id)

\* Two transfers in progress have each committed an update of the same
\* account, after both had read it for their checks.
C26_Witness ==
    \E p, q \in Procs :
        /\ p # q
        /\ pc[p] \in {"read1", "update2"} /\ pc[q] \in {"read1", "update2"}
        /\ \E id \in DOMAIN db.accounts :
              /\ DeltaSum(DurableWrites(p), id) # 0
              /\ DeltaSum(DurableWrites(q), id) # 0


\* The accounts table with every row but those of the ids in keep blanked.
OnlyRows(accounts, keep) ==
    [i \in DOMAIN accounts |-> IF i \in keep THEN accounts[i] ELSE NoAccount]

ChecksReadOwnPair ==
    \A o \in Users, f \in RequestIDs, t \in RequestIDs, a \in 1..MaxAmount :
        LET pair == OnlyRows(db.accounts, {f, t})
        IN /\ CheckFrom(db.accounts, o, f) = CheckFrom(pair, o, f)
           /\ f \in DOMAIN db.accounts =>
                 CheckTo(db.accounts, db.accounts[f], t, a)
                     = CheckTo(pair, pair[f], t, a)

ReadsChangeNothing ==
    [][(resp' # resp /\ resp'.op \in ReadOps) => UNCHANGED <<bankVars, users, sessions, tokens>>]_vars

\* No user handler and no session operation changes accounts, transfers or
\* entries.
UserHandlersKeepAccounts == [][UNCHANGED db]_vars


\* =================================================================
\* Errors and their HTTP status
\* =================================================================
MaxClass == 504        \* codes run from -(MaxClass * 100) to MaxClass * 100 + MaxSubCode
MaxSubCode == 4        \* last two digits of the codes tried

\* The error codes tried: every code of the taxonomy is among them.
Codes == { h * 100 + k : h \in (0 - MaxClass)..MaxClass, k \in 0..MaxSubCode }

\* errors.New / NewWithMessage / Wrap: the AppError of a code.
New(code) == [app |-> TRUE, code |-> code, HTTPStatus |-> codeToHTTPStatus(code)]

\* An error that is not an AppError.
PlainError == [app |-> FALSE]

\* errors.AsAppError
AsAppError(e) == IF e.app THEN e ELSE New(CodeInternalError)

\* A service returns an error to its handler: an AppError of some code, or
\* an error of another type.
ReturnError(e) ==
    /\ resp = NoResp
    /\ resp' = [op |-> "error", err |-> e]
    /\ UNCHANGED <<bankVars, users, sessions, tokens>>

\* handleError: the error is converted with AsAppError and written with its
\* HTTPStatus and its code.
handleError ==
    /\ resp.op = "error"
    /\ resp' = [op |-> "handled", err |-> resp.err,
                answer |-> [code |-> AsAppError(resp.err).code,
                            status |-> AsAppError(resp.err).HTTPStatus]]
    /\ UNCHANGED <<bankVars, users, sessions, tokens>>

ErrorNext ==
    \/ \E code \in Codes : ReturnError(New(code))
    \/ ReturnError(PlainError)
    \/ handleError

ErrorSpec == Init /\ [][ErrorNext]_vars

\* The statuses an error code can stand for.
StatusesUsed == {400, 401, 403, 404, 409, 422, 500, 502, 503}

\* C29 - Error code to HTTP status: the AppError of CodeSuccess has status
\* 200; the AppError of any other code has the status s of StatusesUsed when
\* the code is one of s00..s99, and 500 when there is no such s; so
\* AccountNotFound has 404 and InsufficientBalance, CurrencyMismatch and
\* SameAccount have 422; and handleError answers an error that is not an
\* AppError with InternalError and 500, an AppError with its own code and
\* status.
C29_CodeToHTTPStatus ==
    /\ (resp.op \in {"error", "handled"} /\ resp.err.app) =>
          LET code == resp.err.code
              status == resp.err.HTTPStatus
          IN /\ code = CodeSuccess => status = 200
             /\ \A s \in StatusesUsed :
                   (code # CodeSuccess /\ s * 100 <= code /\ code <= s * 100 + 99)
                       => status = s
             /\ (/\ code # CodeSuccess
                 /\ \A s \in StatusesUsed : code < s * 100 \/ code > s * 100 + 99)
                       => status = 500
             /\ code = CodeAccountNotFound => status = 404
             /\ code \in {CodeInsufficientBalance, CodeCurrencyMismatch, CodeSameAccount}
                       => status = 422
             /\ resp.op = "handled" =>
                   resp.answer = [code |-> code, status |-> status]
    /\ (resp.op = "handled" /\ ~resp.err.app) =>
          resp.answer = [code |-> CodeInternalError, status |-> 500]

\* handleError has answered a CurrencyMismatch error with 422.
C29_Witness ==
    /\ resp.op = "handled"
    /\ resp.err.app
    /\ resp.err.code = CodeCurrencyMismatch
    /\ resp.answer.status = 422

====
